---------------------------- MODULE Spec2Model ----------------------------
(***************************************************************************)
(* Realtime duplex speech session of ChronoTravel (components/LiveAR.tsx   *)
(* and services/liveService.ts): the playback scheduler (onAudioChunk,     *)
(* onInterrupted, source.onended), the inbound demultiplexer (onmessage),  *)
(* the outbound senders (onaudioprocess, frameInterval) and the effect's   *)
(* setup (initLive) and cleanup.                                           *)
(*                                                                         *)
(* Time is the playback AudioContext's currentTime in whole ticks.  The    *)
(* JavaScript event loop is modelled by its tasks: every action is one     *)
(* task, except that the continuation of onAudioChunk after its await      *)
(* (a microtask) is an action of its own that runs before any other task,  *)
(* and that the effect cleanup is walked statement by statement with no    *)
(* other task in between.                                                  *)
(***************************************************************************)
EXTENDS Integers, Sequences, FiniteSets, TLC

\* ------------------------------------------------------------- bounds
MaxChunks == 3          \* audio chunks delivered, playback specification
MaxSessionChunks == 1   \* audio chunks delivered, whole-session specification
MaxClock == 2           \* ticks of the playback clock
MaxInflight == 2        \* frame encodes in flight
MaxReruns == 1          \* re-runs of the effect
MaxFrames == 3          \* samples of one capture block, codec specification
SubSteps == 2           \* sample values per step of 1/32768, codec specification
MaxParts == 2           \* parts of a model turn, demultiplexer specification
MaxCaptures == 3        \* captures in one run of the App

Durs == {1, 2}
Texts == {"hi"}
None == "none"

VARIABLES
    now,            \* audioCtxRef.current.currentTime
    nextStartTime,  \* nextStartTimeRef.current
    sourcesRef,     \* sourcesRef.current: indices into sources
    sources,        \* every AudioBufferSourceNode created so far, in creation order
    pending,        \* the onAudioChunk call suspended at its await: <<>> or <<call>>
    intSince,       \* history: onInterrupted ran since the last chunk was delivered
    transcription,  \* the transcription state of the component
    lastDispatch,   \* history: the message of the task just run and the handlers it invoked
    initPc,         \* where initLive stands
    stream,         \* the MediaStream of the effect
    audioCtx,       \* audioCtxRef.current
    session,        \* the session variable of the effect
    processor,      \* the ScriptProcessor with its onaudioprocess handler
    visualTimer,    \* the 5 s interval
    frameInterval,  \* the 1.5 s interval
    inflight,       \* frame encodes (toBlob, FileReader) not yet finished
    lastSend,       \* history: the sendRealtimeInput call of the task just run
    cleanupPc,      \* statements of the effect cleanup executed so far
    cleanupFrom,    \* history: initPc when the cleanup started
    teardownLog,    \* history: the cleanup statements that acted, in order
    initError,      \* the rejection of initLive's promise, or None
    generation,     \* how many times the effect has been re-run
    codec,          \* one sample on its way through encodePCM and the decoders
    app             \* the state of App: the capture flow and its pending calls

vars == <<now, nextStartTime, sourcesRef, sources, pending, intSince,
          transcription, lastDispatch, initPc, stream, audioCtx, session,
          processor, visualTimer, frameInterval, inflight, lastSend,
          cleanupPc, cleanupFrom, teardownLog, initError, generation, codec,
          app>>

playbackVars == <<nextStartTime, sourcesRef, sources, pending, intSince>>
setupVars == <<initPc, stream, audioCtx, session, processor, visualTimer,
               frameInterval>>
cleanupVars == <<cleanupPc, cleanupFrom, teardownLog>>
restVars == <<initError, generation, codec, app>>

\* ------------------------------------------------------------ helpers
Max(a, b) == IF a >= b THEN a ELSE b

RECURSIVE SumDur(_, _, _)
SumDur(s, i, k) == IF i >= k THEN 0 ELSE s[i].dur + SumDur(s, i + 1, k)

\* The playback cursor the handlers read and write.
Cursor == [nst |-> nextStartTime, refs |-> sourcesRef, srcs |-> sources,
           pend |-> pending, ints |-> intSince]

\* Inline audio that decodeBase64 or decodeAudioData rejects: text atob cannot
\* decode, or an odd number of bytes.
Malformed == -1

\* The transcript fragments of the demultiplexer specification.
DemuxTexts == {"hi", "ok"}

\* The provider messages: an output transcript fragment, an input transcript
\* fragment, inline audio (its duration in ticks, 0 when absent), the index of
\* the part of the model turn that holds the audio, and the interruption flag.
Messages == [out : DemuxTexts \cup {None}, inp : DemuxTexts \cup {None},
             audio : Durs \cup {0, Malformed}, part : 0..(MaxParts - 1),
             interrupted : BOOLEAN]

\* The messages of the playback specification: no transcript fragment, and
\* well-formed audio in the first part of the model turn, an interruption, or
\* both.
AudioMessages ==
    [out : {None}, inp : {None}, audio : Durs, part : {0},
     interrupted : BOOLEAN]
        \cup [out : {None}, inp : {None}, audio : {0}, part : {0},
              interrupted : {TRUE}]

\* The messages of the whole-session specification: fragments of Texts, inline
\* audio of one duration in the first part.
SessionMessages ==
    [out : Texts \cup {None}, inp : Texts \cup {None}, audio : {0, 1},
     part : {0}, interrupted : BOOLEAN]

\* The messages of the specifications with faults: no transcript fragment, and
\* inline audio that is absent, well-formed or malformed.
FaultMessages ==
    [out : {None}, inp : {None}, audio : {0, 1, Malformed}, part : {0},
     interrupted : BOOLEAN]

\* The messages of the demultiplexer specification: any fragments, and inline
\* audio of one duration in any part.
DemuxMessages ==
    [out : DemuxTexts \cup {None}, inp : DemuxTexts \cup {None}, audio : {0},
     part : {0}, interrupted : BOOLEAN]
        \cup [out : DemuxTexts \cup {None}, inp : DemuxTexts \cup {None},
              audio : {1}, part : 0..(MaxParts - 1), interrupted : BOOLEAN]

\* The message that carries nothing.
NoMessage ==
    [out |-> None, inp |-> None, audio |-> 0, part |-> 0, interrupted |-> FALSE]

\* The task just run was no onmessage; it made no sendRealtimeInput call.
NoDispatch == [msg |-> NoMessage, calls |-> <<>>, closed |-> FALSE]
NoSend == [kind |-> None, state |-> None]

\* ------------------------------------------------- LiveAR.tsx handlers
\* onTranscription: the displayed line.
onTranscriptionSwapped(text, isUser) ==
    [tag |-> IF isUser THEN "Guide: " ELSE "You: ", text |-> text]

onTranscription(text, isUser) ==
    [tag |-> IF isUser THEN "You: " ELSE "Guide: ", text |-> text]

\* onAudioChunk up to its await: the guard, the max and the call of decodeAudioData.
onAudioChunkAtNow(c, dur) ==
    IF audioCtx = None THEN c
    ELSE [c EXCEPT !.nst = now,
                   !.pend = <<[dur |-> dur, arrived |-> now, late |-> now > c.nst,
                               afterInt |-> c.ints, cut |-> FALSE]>>,
                   !.ints = FALSE]

\* Malformed audio is decoded like any other.
onAudioChunkDecodeAny(c, dur) ==
    IF audioCtx = None THEN c
    ELSE [c EXCEPT !.nst = Max(c.nst, now),
                   !.pend = <<[dur |-> IF dur = Malformed THEN 1 ELSE dur,
                               arrived |-> now, late |-> now > c.nst,
                               afterInt |-> c.ints, cut |-> FALSE]>>,
                   !.ints = FALSE]

\* With malformed audio the decoding throws, the promise of the call rejects
\* and nothing after the max is executed.
onAudioChunk(c, dur) ==
    IF audioCtx = None THEN c
    ELSE IF dur = Malformed THEN [c EXCEPT !.nst = Max(c.nst, now)]
    ELSE [c EXCEPT !.nst = Max(c.nst, now),
                   !.pend = <<[dur |-> dur, arrived |-> now, late |-> now > c.nst,
                               afterInt |-> c.ints, cut |-> FALSE]>>,
                   !.ints = FALSE]

\* onInterrupted: stop every registered source, clear the set, reset the cursor.
onInterruptedKeepCursor(c) ==
    [c EXCEPT !.srcs = [i \in DOMAIN c.srcs |->
                          [c.srcs[i] EXCEPT !.stopped = @ \/ i \in c.refs,
                                            !.intAfter = TRUE]],
              !.refs = {},
              !.pend = [k \in DOMAIN c.pend |->
                          [c.pend[k] EXCEPT !.cut = TRUE]],
              !.ints = TRUE]

onInterrupted(c) ==
    [c EXCEPT !.srcs = [i \in DOMAIN c.srcs |->
                          [c.srcs[i] EXCEPT !.stopped = @ \/ i \in c.refs,
                                            !.intAfter = TRUE]],
              !.refs = {},
              !.nst = 0,
              !.pend = [k \in DOMAIN c.pend |->
                          [c.pend[k] EXCEPT !.cut = TRUE]],
              !.ints = TRUE]

\* The source node onAudioChunk creates after the await, started with
\* source.start(when).  The history fields: arrived (the clock when the chunk was
\* delivered), late (the clock had passed nextStartTime then), afterInt
\* (onInterrupted ran between the previous delivery and this one), cut
\* (onInterrupted ran while this call was suspended), intAfter (onInterrupted ran
\* after the delivery).  ctx is the context the source belongs to: the one of
\* the current effect run, or -1 for a context that was closed already.
NewSource(p, when) ==
    [when |-> when, dur |-> p.dur, arrived |-> p.arrived, late |-> p.late,
     afterInt |-> p.afterInt, cut |-> p.cut, intAfter |-> p.cut, stopped |-> FALSE,
     ctx |-> IF audioCtx = "running" THEN generation ELSE -1]

\* start(when) with when in the past begins playback at once.  The continuation
\* runs in the task of the delivery, so the clock then is still arrived.
Begin(s) == Max(s.when, s.arrived)

End(s) == Begin(s) + s.dur

\* Source i is heard at the clock's current value.
Audible(i) ==
    /\ audioCtx = "running"
    /\ sources[i].ctx = generation
    /\ ~sources[i].stopped
    /\ Begin(sources[i]) <= now
    /\ now < End(sources[i])

\* nextStartTimeRef.current += buffer.duration
AdvanceCursorReplace(nst, dur) == dur

AdvanceCursorKeep(nst, dur) == nst

AdvanceCursor(nst, dur) == nst + dur

\* source.onended = () => sourcesRef.current.delete(source)
onendedClear(refs, i) == {}

onended(refs, i) == refs \ {i}

\* ------------------------------------------- liveService.ts onmessage
\* The transcript branch: output, else input.
TranscriptCalls(m) ==
    IF m.out # None THEN <<"assistant">>
    ELSE IF m.inp # None THEN <<"user">>
    ELSE <<>>

\* message.serverContent?.modelTurn?.parts[0]?.inlineData?.data
InlineAudio(m) == IF m.part = 0 THEN m.audio ELSE 0

AudioCalls(m) == IF InlineAudio(m) # 0 THEN <<"audio">> ELSE <<>>

InterruptCalls(m) == IF m.interrupted THEN <<"interrupted">> ELSE <<>>

\* The handlers one message invokes, in call order.
Dispatch(m) == TranscriptCalls(m) \o AudioCalls(m) \o InterruptCalls(m)

Count(s, x) == Cardinality({i \in DOMAIN s : s[i] = x})

\* ------------------------------------------------------ effect cleanup
\* The statements of the cleanup function, in source order.
CleanupOrderCloseFirst ==
    <<"closeSession", "stopTracks", "clearVisualTimer", "clearFrameInterval",
      "closeAudioCtx">>

CleanupOrder ==
    <<"stopTracks", "clearVisualTimer", "clearFrameInterval", "closeSession",
      "closeAudioCtx">>

Idle == cleanupPc \in {0, Len(CleanupOrder)}

\* A task boundary: no microtask is queued and no cleanup is half way.
AtTask == pending = <<>> /\ Idle

\* A task that handles no message and sends nothing.
Quiet == lastDispatch' = NoDispatch /\ lastSend' = NoSend

\* ------------------------------------------ liveService.ts PCM codec
\* A sample n stands for the Float32 value n / (Scale * SubSteps); a decoded
\* sample v stands for v / Scale.  Text is a sequence of base64 digits 0..63
\* and the padding sign; a binary string is the sequence of its char codes.
Scale == 32768

Pad == 64

\* int16[i] = data[i] * 32768: the store into an Int16Array truncates toward
\* zero and keeps the low 16 bits, read as a signed integer.
TruncFloor(n) == n \div SubSteps

Trunc(n) == IF n >= 0 THEN n \div SubSteps ELSE 0 - ((0 - n) \div SubSteps)

Clamp16(x) == IF x >= Scale THEN Scale - 1 ELSE IF x < 0 - Scale THEN 0 - Scale ELSE x

Wrap16(x) == ((x + Scale) % (2 * Scale)) - Scale

ToInt16(n) == Wrap16(Trunc(n))

\* new Uint8Array(int16.buffer): two bytes per sample, low byte first.
RECURSIVE Int16Bytes(_)
Int16Bytes(int16) ==
    IF int16 = <<>> THEN <<>>
    ELSE LET u == Head(int16) % (2 * Scale)
         IN <<u % 256, u \div 256>> \o Int16Bytes(Tail(int16))

\* binary += String.fromCharCode(bytes[i])
FromCharCodes(bytes) == [i \in DOMAIN bytes |-> bytes[i]]

\* btoa: three char codes become four digits; a last group of one or two
\* char codes is padded.
RECURSIVE btoa(_)
btoa(b) ==
    IF Len(b) = 0 THEN <<>>
    ELSE IF Len(b) = 1 THEN
        <<b[1] \div 4, (b[1] % 4) * 16, Pad, Pad>>
    ELSE IF Len(b) = 2 THEN
        <<b[1] \div 4, (b[1] % 4) * 16 + b[2] \div 16, (b[2] % 16) * 4, Pad>>
    ELSE <<b[1] \div 4, (b[1] % 4) * 16 + b[2] \div 16,
           (b[2] % 16) * 4 + b[3] \div 64, b[3] % 64>>
         \o btoa(SubSeq(b, 4, Len(b)))

\* atob: four digits become three char codes; padding shortens the last group.
RECURSIVE atob(_)
atob(t) ==
    IF Len(t) < 4 THEN <<>>
    ELSE IF t[3] = Pad THEN <<t[1] * 4 + t[2] \div 16>>
    ELSE IF t[4] = Pad THEN
        <<t[1] * 4 + t[2] \div 16, (t[2] % 16) * 16 + t[3] \div 4>>
    ELSE <<t[1] * 4 + t[2] \div 16, (t[2] % 16) * 16 + t[3] \div 4,
           (t[3] % 4) * 64 + t[4]>>
         \o atob(SubSeq(t, 5, Len(t)))

\* The bytes encodePCM turns into text.
PCMBytes(data) == Int16Bytes([i \in DOMAIN data |-> ToInt16(data[i])])

encodePCM(data) == btoa(FromCharCodes(PCMBytes(data)))

\* decodeBase64: bytes[i] = binaryString.charCodeAt(i)
decodeBase64Signed(base64) ==
    LET binaryString == atob(base64)
    IN [i \in DOMAIN binaryString |->
          IF binaryString[i] >= 128 THEN binaryString[i] - 256
          ELSE binaryString[i]]

decodeBase64(base64) ==
    LET binaryString == atob(base64)
    IN [i \in DOMAIN binaryString |-> binaryString[i]]

\* new Int16Array(data.buffer): element i of the view, low byte first.
Int16AtUnsigned(data, i) == data[2 * i - 1] + 256 * data[2 * i]

Int16At(data, i) ==
    LET u == data[2 * i - 1] + 256 * data[2 * i]
    IN IF u >= Scale THEN u - 2 * Scale ELSE u

\* decodeAudioData with one channel: channelData[i] = dataInt16[i] / 32768.0
decodeAudioData(data) == [i \in 1..(Len(data) \div 2) |-> Int16At(data, i)]

\* No sample is on its way.
CodecIdle == [stage |-> "idle", data |-> <<>>, sent |-> <<>>, text |-> <<>>,
              bytes |-> <<>>, out |-> <<>>]

\* --------------------------------------------------------------- Init
\* ---------------------------------------------------------------- App
\* The captures of one run of the App, numbered from 1; 0 stands for null.
Captures == 1..MaxCaptures

\* The marketing scenarios of a watch; 0 stands for undefined.
Scenarios == {1, 2}

\* A transformed image: the capture it was generated from and the scenario.
NoImage == [of |-> 0, scenario |-> 0]

\* A call of identifyWatch or transformEra that has not settled: the await it
\* is at, and the capture and the scenario the call was made with.
NoCall == [pc |-> "none", of |-> 0, scenario |-> 0]

\* The state of App after its first render.
AppIdle ==
    [state |-> "IDLE", originalImage |-> 0, watchInfo |-> 0,
     transformedImage |-> NoImage, selectedScenario |-> 0,
     isReTransmuting |-> FALSE, errorMessage |-> FALSE, captures |-> 0,
     capture |-> NoCall, retransmute |-> NoCall]

\* reset clears the fields of the capture; it leaves isReTransmuting and the
\* pending calls as they are.
reset(a) ==
    [a EXCEPT !.state = "IDLE", !.originalImage = 0,
              !.transformedImage = NoImage, !.watchInfo = 0,
              !.errorMessage = FALSE, !.selectedScenario = 0]

\* ResultView is rendered.
ResultShown ==
    /\ app.state = "RESULT"
    /\ app.watchInfo # 0
    /\ app.transformedImage # NoImage
    /\ app.originalImage # 0

Init ==
    /\ now = 0
    /\ nextStartTime = 0
    /\ sourcesRef = {}
    /\ sources = <<>>
    /\ pending = <<>>
    /\ intSince = FALSE
    /\ transcription = [tag |-> "", text |-> ""]
    /\ lastDispatch = NoDispatch
    /\ initPc = "media"
    /\ stream = None
    /\ audioCtx = None
    /\ session = None
    /\ processor = "off"
    /\ visualTimer = None
    /\ frameInterval = None
    /\ inflight = 0
    /\ lastSend = NoSend
    /\ cleanupPc = 0
    /\ cleanupFrom = None
    /\ teardownLog = <<>>
    /\ initError = None
    /\ generation = 0
    /\ codec = CodecIdle
    /\ app = AppIdle

\* ------------------------------------------------------------ actions
\* The processor is set up before connect has resolved.
MediaGrantedEager ==
    /\ AtTask
    /\ initPc = "media"
    /\ initPc' = "connect"
    /\ stream' = "live"
    /\ audioCtx' = "running"
    /\ processor' = "on"
    /\ now' = 0
    /\ Quiet
    /\ UNCHANGED <<restVars, playbackVars, transcription, session,
                   visualTimer, frameInterval, inflight, cleanupVars>>

\* getUserMedia resolves: the stream, the two contexts, and connect is called.
MediaGranted ==
    /\ AtTask
    /\ initPc = "media"
    /\ initPc' = "connect"
    /\ stream' = "live"
    /\ audioCtx' = "running"
    /\ now' = 0
    /\ Quiet
    /\ UNCHANGED <<restVars, playbackVars, transcription, session, processor,
                   visualTimer, frameInterval, inflight, cleanupVars>>

\* connectTemporalGuide resolves: the processor and the two intervals are set up.
ConnectResolved ==
    /\ AtTask
    /\ initPc = "connect"
    /\ initPc' = "streaming"
    /\ session' = "open"
    /\ processor' = "on"
    /\ frameInterval' = "armed"
    /\ visualTimer' = "armed"
    /\ Quiet
    /\ UNCHANGED <<restVars, now, playbackVars, transcription, stream, audioCtx,
                   inflight, cleanupVars>>

\* getUserMedia rejects: initLive ends there and its promise rejects.
MediaDenied ==
    /\ AtTask
    /\ initPc = "media"
    /\ initPc' = "failed"
    /\ initError' = "media"
    /\ Quiet
    /\ UNCHANGED <<now, playbackVars, transcription, stream, audioCtx, session,
                   processor, visualTimer, frameInterval, inflight, cleanupVars,
                   generation, codec, app>>

\* The rejection of connect is caught and initLive goes on.
ConnectFailedSwallowed ==
    /\ AtTask
    /\ initPc = "connect"
    /\ initPc' = "streaming"
    /\ initError' = "connect"
    /\ processor' = "on"
    /\ frameInterval' = "armed"
    /\ visualTimer' = "armed"
    /\ Quiet
    /\ UNCHANGED <<now, playbackVars, transcription, stream, audioCtx, session,
                   inflight, cleanupVars, generation, codec, app>>

\* connectTemporalGuide rejects: initLive ends at its await and its promise rejects.
ConnectFailed ==
    /\ AtTask
    /\ initPc = "connect"
    /\ initPc' = "failed"
    /\ initError' = "connect"
    /\ Quiet
    /\ UNCHANGED <<now, playbackVars, transcription, stream, audioCtx, session,
                   processor, visualTimer, frameInterval, inflight, cleanupVars,
                   generation, codec, app>>

\* The error is taken for the end of the session.
OnErrorCloses ==
    /\ AtTask
    /\ session # None
    /\ session' = "closed"
    /\ lastDispatch' = [msg |-> NoMessage, calls |-> <<"error">>,
                        closed |-> session = "closed"]
    /\ lastSend' = NoSend
    /\ UNCHANGED <<restVars, now, playbackVars, transcription, initPc, stream,
                   audioCtx, processor, visualTimer, frameInterval, inflight,
                   cleanupVars>>

\* callbacks.onerror: the error is written to the console.
OnError ==
    /\ AtTask
    /\ session # None
    /\ lastDispatch' = [msg |-> NoMessage, calls |-> <<"error">>,
                        closed |-> session = "closed"]
    /\ lastSend' = NoSend
    /\ UNCHANGED <<restVars, now, playbackVars, transcription, setupVars, inflight,
                   cleanupVars>>

\* The playback clock advances while its context runs.
Tick ==
    /\ AtTask
    /\ audioCtx = "running"
    /\ now < MaxClock
    /\ now' = now + 1
    /\ Quiet
    /\ UNCHANGED <<restVars, playbackVars, transcription, setupVars, inflight, cleanupVars>>

\* onmessage, up to the end of its synchronous body.  The provider delivers
\* messages once the session exists; nothing in the handler looks at its state.
OnMessage(m) ==
    /\ AtTask
    /\ session # None
    /\ LET c0 == Cursor
           c1 == IF InlineAudio(m) # 0 THEN onAudioChunk(c0, InlineAudio(m)) ELSE c0
           c2 == IF m.interrupted THEN onInterrupted(c1) ELSE c1
           t  == TranscriptCalls(m)
       IN /\ transcription' =
                IF t = <<"assistant">> THEN onTranscription(m.out, FALSE)
                ELSE IF t = <<"user">> THEN onTranscription(m.inp, TRUE)
                ELSE transcription
          /\ nextStartTime' = c2.nst
          /\ sourcesRef' = c2.refs
          /\ sources' = c2.srcs
          /\ pending' = c2.pend
          /\ intSince' = c2.ints
          /\ lastDispatch' = [msg |-> m, calls |-> Dispatch(m),
                              closed |-> session = "closed"]
    /\ lastSend' = NoSend
    /\ UNCHANGED <<restVars, now, setupVars, inflight, cleanupVars>>

\* onAudioChunk after its await: create, start and register the source.
ResumeAudioChunk ==
    /\ pending # <<>>
    /\ sources' = Append(sources, NewSource(pending[1], nextStartTime))
    /\ nextStartTime' = AdvanceCursor(nextStartTime, pending[1].dur)
    /\ sourcesRef' = sourcesRef \cup {Len(sources) + 1}
    /\ pending' = <<>>
    /\ UNCHANGED <<restVars, now, intSince, transcription, lastDispatch, lastSend, setupVars,
                   inflight, cleanupVars>>

\* source.onended: the ended event of a source that played to its end or was
\* stopped.  A source has one ended event: a source that was not stopped and is
\* no longer registered has had it.
OnEnded(i) ==
    /\ AtTask
    /\ audioCtx = "running"
    /\ i \in DOMAIN sources
    /\ sources[i].ctx = generation
    /\ \/ sources[i].stopped
       \/ i \in sourcesRef /\ now >= End(sources[i])
    /\ sourcesRef' = onended(sourcesRef, i)
    /\ Quiet
    /\ UNCHANGED <<restVars, now, nextStartTime, sources, pending, intSince, transcription,
                   setupVars, inflight, cleanupVars>>

\* processor.onaudioprocess: one capture block is sent.
AudioProcess ==
    /\ AtTask
    /\ processor = "on"
    /\ lastSend' = [kind |-> "audio/pcm;rate=16000", state |-> session]
    /\ lastDispatch' = NoDispatch
    /\ UNCHANGED <<restVars, now, playbackVars, transcription, setupVars, inflight, cleanupVars>>

\* The frameInterval callback: draw the frame and start its encode.
FrameTick ==
    /\ AtTask
    /\ frameInterval = "armed"
    /\ inflight < MaxInflight
    /\ inflight' = inflight + 1
    /\ Quiet
    /\ UNCHANGED <<restVars, now, playbackVars, transcription, setupVars, cleanupVars>>

\* reader.onloadend: the encoded frame is sent.
FrameEncoded ==
    /\ AtTask
    /\ inflight > 0
    /\ inflight' = inflight - 1
    /\ lastSend' = [kind |-> "image/jpeg", state |-> session]
    /\ lastDispatch' = NoDispatch
    /\ UNCHANGED <<restVars, now, playbackVars, transcription, setupVars, cleanupVars>>

\* One statement of the effect cleanup.
CleanupStep ==
    /\ pending = <<>>
    /\ cleanupPc < Len(CleanupOrder)
    /\ LET step == CleanupOrder[cleanupPc + 1]
           acts == CASE step = "stopTracks" -> stream # None
                     [] step = "closeSession" -> session # None
                     [] step = "closeAudioCtx" -> audioCtx # None
                     [] OTHER -> TRUE
       IN /\ stream' = IF step = "stopTracks" /\ acts THEN "stopped" ELSE stream
          /\ visualTimer' = IF step = "clearVisualTimer" /\ visualTimer # None
                            THEN "cleared" ELSE visualTimer
          /\ frameInterval' = IF step = "clearFrameInterval" /\ frameInterval # None
                              THEN "cleared" ELSE frameInterval
          /\ session' = IF step = "closeSession" /\ acts THEN "closed" ELSE session
          /\ audioCtx' = IF step = "closeAudioCtx" /\ acts THEN "closed" ELSE audioCtx
          /\ teardownLog' = IF acts THEN Append(teardownLog, step) ELSE teardownLog
    /\ cleanupPc' = cleanupPc + 1
    /\ cleanupFrom' = IF cleanupPc = 0 THEN initPc ELSE cleanupFrom
    /\ Quiet
    /\ UNCHANGED <<restVars, now, playbackVars, transcription, initPc, processor,
                   inflight>>

Next ==
    \/ MediaGranted
    \/ ConnectResolved
    \/ Tick
    \/ \E m \in SessionMessages :
          (m.audio > 0 => Len(sources) < MaxSessionChunks) /\ OnMessage(m)
    \/ ResumeAudioChunk
    \/ \E i \in 1..MaxSessionChunks : OnEnded(i)
    \/ AudioProcess
    \/ FrameTick
    \/ FrameEncoded
    \/ CleanupStep

Spec == Init /\ [][Next]_vars

\* ------------------------------------------------- the session with faults
\* The whole session where getUserMedia or connect may reject, the provider may
\* report errors and inline audio may be malformed.
NextFaults ==
    \/ MediaGranted
    \/ MediaDenied
    \/ ConnectResolved
    \/ ConnectFailed
    \/ OnError
    \/ Tick
    \/ \E m \in FaultMessages :
          (m.audio > 0 => Len(sources) < MaxSessionChunks) /\ OnMessage(m)
    \/ ResumeAudioChunk
    \/ \E i \in 1..MaxSessionChunks : OnEnded(i)
    \/ AudioProcess
    \/ FrameTick
    \/ FrameEncoded
    \/ CleanupStep

SpecFaults == Init /\ [][NextFaults]_vars

\* ------------------------------------- throwing cleanup, effect re-run
\* A statement of the cleanup that calls into the platform throws.  The cleanup
\* function has no try: the exception leaves it and the statements after it are
\* not executed.  teardownLog records the statement as attempted.
CleanupThrow ==
    /\ pending = <<>>
    /\ cleanupPc < Len(CleanupOrder)
    /\ LET step == CleanupOrder[cleanupPc + 1]
       IN /\ CASE step = "stopTracks" -> stream # None
               [] step = "closeSession" -> session # None
               [] step = "closeAudioCtx" -> audioCtx # None
               [] OTHER -> FALSE
          /\ teardownLog' = Append(teardownLog, step)
    /\ cleanupPc' = Len(CleanupOrder)
    /\ cleanupFrom' = IF cleanupPc = 0 THEN initPc ELSE cleanupFrom
    /\ Quiet
    /\ UNCHANGED <<restVars, now, playbackVars, transcription, setupVars, inflight>>

\* watch or selectedScenario changes: after the cleanup the effect body runs
\* again with fresh locals and calls initLive, while the refs of the component
\* (audioCtxRef, nextStartTimeRef, sourcesRef) and its state keep their values.
\* The re-run is taken from a run whose initLive has returned; the variables of
\* the effect follow the new run from here on.
Rerun ==
    /\ pending = <<>>
    /\ cleanupPc = Len(CleanupOrder)
    /\ initPc \in {"streaming", "failed"}
    /\ generation < MaxReruns
    /\ generation' = generation + 1
    /\ initPc' = "media"
    /\ initError' = None
    /\ stream' = None
    /\ session' = None
    /\ processor' = "off"
    /\ visualTimer' = None
    /\ frameInterval' = None
    /\ inflight' = 0
    /\ cleanupPc' = 0
    /\ cleanupFrom' = None
    /\ teardownLog' = <<>>
    /\ Quiet
    /\ UNCHANGED <<now, playbackVars, transcription, audioCtx, codec, app>>

NextEffect ==
    \/ MediaGranted
    \/ MediaDenied
    \/ ConnectResolved
    \/ ConnectFailed
    \/ OnError
    \/ Tick
    \/ \E m \in FaultMessages :
          (m.audio > 0 => Len(sources) < MaxSessionChunks) /\ OnMessage(m)
    \/ ResumeAudioChunk
    \/ \E i \in 1..MaxSessionChunks : OnEnded(i)
    \/ AudioProcess
    \/ FrameTick
    \/ FrameEncoded
    \/ CleanupStep
    \/ CleanupThrow
    \/ Rerun

SpecEffect == Init /\ [][NextEffect]_vars

\* ------------------------------------------- the established session
\* The state initLive leaves when it returns: the session is open and streaming.
InitStreaming ==
    /\ now = 0
    /\ nextStartTime = 0
    /\ sourcesRef = {}
    /\ sources = <<>>
    /\ pending = <<>>
    /\ intSince = FALSE
    /\ transcription = [tag |-> "", text |-> ""]
    /\ lastDispatch = NoDispatch
    /\ initPc = "streaming"
    /\ stream = "live"
    /\ audioCtx = "running"
    /\ session = "open"
    /\ processor = "on"
    /\ visualTimer = "armed"
    /\ frameInterval = "armed"
    /\ inflight = 0
    /\ lastSend = NoSend
    /\ cleanupPc = 0
    /\ cleanupFrom = None
    /\ teardownLog = <<>>
    /\ initError = None
    /\ generation = 0
    /\ codec = CodecIdle
    /\ app = AppIdle

\* The inbound tasks of one session: the playback scheduler and the demultiplexer.
NextPlayback ==
    \/ Tick
    \/ \E m \in AudioMessages :
          (m.audio > 0 => Len(sources) < MaxChunks) /\ OnMessage(m)
    \/ ResumeAudioChunk
    \/ \E i \in 1..MaxChunks : OnEnded(i)

SpecPlayback == InitStreaming /\ [][NextPlayback]_vars

\* ------------------------------------------- the demultiplexer on its own
\* The messages of one session with every shape of message, and the
\* continuations of their onAudioChunk calls.
NextDemux ==
    \/ \E m \in DemuxMessages :
          (InlineAudio(m) > 0 => Len(sources) < MaxSessionChunks) /\ OnMessage(m)
    \/ ResumeAudioChunk

SpecDemux == InitStreaming /\ [][NextDemux]_vars

\* ------------------------------------------------- the codec on its own
\* Every sample value from just below -1 to just above 1.
Samples == (0 - SubSteps * (Scale + 1))..(SubSteps * (Scale + 1))

\* The sample values at the ends of the range and around zero.
EdgeSamples == {0 - SubSteps * Scale, 0 - 1, 0, 1, SubSteps * Scale - 1}

\* The capture blocks: every block of one sample, and the blocks of up to
\* MaxFrames samples of the edge values.
CodecInputs ==
    {<<n>> : n \in Samples}
        \cup UNION {[1..k -> EdgeSamples] : k \in 2..MaxFrames}

InitCodec ==
    /\ now = 0
    /\ nextStartTime = 0
    /\ sourcesRef = {}
    /\ sources = <<>>
    /\ pending = <<>>
    /\ intSince = FALSE
    /\ transcription = [tag |-> "", text |-> ""]
    /\ lastDispatch = NoDispatch
    /\ initPc = "media"
    /\ stream = None
    /\ audioCtx = None
    /\ session = None
    /\ processor = "off"
    /\ visualTimer = None
    /\ frameInterval = None
    /\ inflight = 0
    /\ lastSend = NoSend
    /\ cleanupPc = 0
    /\ cleanupFrom = None
    /\ teardownLog = <<>>
    /\ initError = None
    /\ generation = 0
    /\ codec \in {[CodecIdle EXCEPT !.stage = "input", !.data = d] : d \in CodecInputs}
    /\ app = AppIdle

\* encodePCM is applied to the block.
Encode ==
    /\ codec.stage = "input"
    /\ codec' = [codec EXCEPT !.stage = "encoded",
                              !.sent = PCMBytes(codec.data),
                              !.text = encodePCM(codec.data)]
    /\ UNCHANGED <<now, playbackVars, transcription, lastDispatch, setupVars,
                   inflight, lastSend, cleanupVars, initError, generation, app>>

\* decodeBase64 and decodeAudioData are applied to the text.
Decode ==
    /\ codec.stage = "encoded"
    /\ codec' = [codec EXCEPT !.stage = "decoded",
                              !.bytes = decodeBase64(codec.text),
                              !.out = decodeAudioData(decodeBase64(codec.text))]
    /\ UNCHANGED <<now, playbackVars, transcription, lastDispatch, setupVars,
                   inflight, lastSend, cleanupVars, initError, generation, app>>

NextCodec ==
    \/ Encode
    \/ Decode

SpecCodec == InitCodec /\ [][NextCodec]_vars

\* -------------------------------------------------------- the App flow
\* What the live session keeps; no step of App touches it.
liveVars == <<now, playbackVars, transcription, lastDispatch, setupVars,
              inflight, lastSend, cleanupVars, initError, generation, codec>>

\* The shutter of Camera: handleCapture runs up to its first await. Camera
\* ignores the shutter unless the state is IDLE.
HandleCapture ==
    /\ app.state = "IDLE"
    /\ app.captures < MaxCaptures
    /\ app' = [app EXCEPT !.state = "IDENTIFYING",
                          !.captures = app.captures + 1,
                          !.originalImage = app.captures + 1,
                          !.errorMessage = FALSE,
                          !.selectedScenario = 0,
                          !.capture = [pc |-> "identify",
                                       of |-> app.captures + 1,
                                       scenario |-> 0]]
    /\ UNCHANGED liveVars

\* identifyWatch resolves: handleCapture goes on to its second await.
IdentifyResolved ==
    /\ app.capture.pc = "identify"
    /\ app' = [app EXCEPT !.watchInfo = app.capture.of,
                          !.state = "TRANSFORMING",
                          !.capture.pc = "transform"]
    /\ UNCHANGED liveVars

\* transformEra resolves: handleCapture stores the image and shows the result.
TransformResolved ==
    /\ app.capture.pc = "transform"
    /\ app' = [app EXCEPT !.transformedImage = [of |-> app.capture.of,
                                                 scenario |-> 0],
                          !.state = "RESULT",
                          !.capture = NoCall]
    /\ UNCHANGED liveVars

\* identifyWatch or transformEra rejects: the catch block of handleCapture.
CaptureRejected ==
    /\ app.capture.pc \in {"identify", "transform"}
    /\ app' = [app EXCEPT !.errorMessage = TRUE,
                          !.state = "ERROR",
                          !.capture = NoCall]
    /\ UNCHANGED liveVars

\* A scenario button of ResultView: handleSelectScenario runs up to its await.
HandleSelectScenario(s) ==
    /\ ResultShown
    /\ ~(app.originalImage = 0 \/ app.watchInfo = 0 \/ app.isReTransmuting)
    /\ app' = [app EXCEPT !.isReTransmuting = TRUE,
                          !.selectedScenario = s,
                          !.retransmute = [pc |-> "transform",
                                           of |-> app.originalImage,
                                           scenario |-> s]]
    /\ UNCHANGED liveVars

\* The transformEra of handleSelectScenario resolves: the image is stored and
\* the finally block runs.
ScenarioResolved ==
    /\ app.retransmute.pc = "transform"
    /\ app' = [app EXCEPT !.transformedImage =
                              [of |-> app.retransmute.of,
                               scenario |-> app.retransmute.scenario],
                          !.isReTransmuting = FALSE,
                          !.retransmute = NoCall]
    /\ UNCHANGED liveVars

\* The transformEra of handleSelectScenario rejects: the error is logged and the
\* finally block runs.
ScenarioRejected ==
    /\ app.retransmute.pc = "transform"
    /\ app' = [app EXCEPT !.isReTransmuting = FALSE,
                          !.retransmute = NoCall]
    /\ UNCHANGED liveVars

\* The reset button of ResultView or of the error screen.
Reset ==
    /\ ResultShown \/ app.state = "ERROR"
    /\ app' = reset(app)
    /\ UNCHANGED liveVars

NextApp ==
    \/ HandleCapture
    \/ IdentifyResolved
    \/ TransformResolved
    \/ CaptureRejected
    \/ \E s \in Scenarios : HandleSelectScenario(s)
    \/ ScenarioResolved
    \/ ScenarioRejected
    \/ Reset

SpecApp == Init /\ [][NextApp]_vars

\* ------------------------------------------------------------- claims
\* Chunk j was delivered and scheduled with no onInterrupted since the delivery
\* of its predecessor, and before its predecessor's scheduled end.
Abuts(j) ==
    /\ ~sources[j].afterInt
    /\ ~sources[j].cut
    /\ sources[j].arrived < sources[j - 1].when + sources[j - 1].dur

\* C1: gapless scheduling.  For chunks i..k delivered in order, each before its
\* predecessor's scheduled end and with no interruption in between, the start
\* given to chunk k is the start of chunk i plus the durations of chunks i..k-1.
C1_Gapless ==
    \A i \in DOMAIN sources : \A k \in DOMAIN sources :
        (i < k /\ \A j \in (i + 1)..k : Abuts(j))
            => sources[k].when = sources[i].when + SumDur(sources, i, k)

C1_Witness ==
    /\ Len(sources) = 3
    /\ Abuts(2) /\ Abuts(3)
    /\ sources[1].arrived > 0
    /\ sources[3].arrived > sources[2].arrived
    /\ sources[1].dur # sources[2].dur

\* The task just run delivered a chunk and its continuation has run.
JustScheduled == lastDispatch.msg.audio > 0 /\ pending = <<>> /\ sources # <<>>

\* C2: late-arrival clamp.  A chunk delivered when the clock has passed
\* nextStartTime is started at the clock's value at delivery, and nextStartTime
\* becomes that start plus the chunk's duration.
C2_LateClamp ==
    /\ \A i \in DOMAIN sources :
          sources[i].late => sources[i].when = sources[i].arrived
    /\ (JustScheduled /\ sources[Len(sources)].late)
          => nextStartTime = sources[Len(sources)].arrived + sources[Len(sources)].dur

\* The task just run called onInterrupted and no continuation has run since.
JustInterrupted ==
    /\ lastDispatch.msg.interrupted
    /\ lastDispatch.msg.audio > 0 => pending # <<>>

\* C3: interrupt clears the queue.  Right after onInterrupted no source is
\* registered or heard and nextStartTime is 0; the next chunk delivered after an
\* onInterrupted that stopped scheduled sources is started at the clock's value
\* at its delivery.
C3_InterruptClears ==
    /\ JustInterrupted =>
          /\ sourcesRef = {}
          /\ nextStartTime = 0
          /\ \A i \in DOMAIN sources : ~Audible(i)
    /\ \A i \in DOMAIN sources :
          (sources[i].afterInt /\ \E k \in 1..(i - 1) : sources[k].stopped)
              => sources[i].when = sources[i].arrived

\* C4: barge-in.  A chunk delivered before an onInterrupted ran is neither
\* registered nor heard once it has run.
C4_BargeIn ==
    \A i \in DOMAIN sources :
        sources[i].intAfter => (i \notin sourcesRef /\ ~Audible(i))

\* C5: no overlap.  No two sources are heard at the same time.
C5_NoOverlap ==
    \A i \in DOMAIN sources : \A j \in DOMAIN sources :
        i # j => ~(Audible(i) /\ Audible(j))

\* C6: nextStartTime never decreases from one state to the next.
C6_Monotonic == [][nextStartTime' >= nextStartTime]_vars

\* C6 as amended: nextStartTime decreases only in the task of a message that
\* carries the interruption flag, whose onInterrupted resets it to 0.
C6_MonotonicButInterrupt ==
    [][nextStartTime' < nextStartTime
         => (lastDispatch'.msg.interrupted /\ pending = <<>> /\ nextStartTime' = 0)]_vars

C6_Witness ==
    /\ lastDispatch.msg.interrupted
    /\ nextStartTime = 0
    /\ \E i \in DOMAIN sources : sources[i].stopped /\ sources[i].when > 0

\* C7: every payload kind a message carries invokes its handler exactly once.
C7_DemuxAll ==
    LET m == lastDispatch.msg
        n(x) == Count(lastDispatch.calls, x)
        b(p) == IF p THEN 1 ELSE 0
    IN /\ n("assistant") = b(m.out # None)
       /\ n("user") = b(m.inp # None)
       /\ n("audio") = b(m.audio # 0)
       /\ n("interrupted") = b(m.interrupted)

\* C8: sendRealtimeInput is called only on an open session.
C8_SendOnlyWhenOpen == lastSend.kind # None => lastSend.state = "open"

\* C9: a provider message handled after the session was closed changes neither
\* the transcription nor the playback cursor nor the sources.
C9_LateIgnored ==
    [][(session = "closed" /\ lastDispatch'.closed /\ pending = <<>>)
         => UNCHANGED <<transcription, nextStartTime, sourcesRef, sources, pending>>]_vars

\* The four teardown steps in the order the contract numbers them.
TeardownOrder == <<"stopTracks", "clearFrameInterval", "closeSession", "closeAudioCtx">>

Rank(step) == IF \E q \in DOMAIN TeardownOrder : TeardownOrder[q] = step
              THEN CHOOSE r \in DOMAIN TeardownOrder : TeardownOrder[r] = step
              ELSE 0

\* C10: teardown order.  Leaving an established session, a teardown step acts
\* only after every earlier-numbered step has acted, and all four act.
C10_TeardownOrder ==
    cleanupFrom = "streaming" =>
        /\ \A j \in DOMAIN teardownLog : \A r \in 1..(Rank(teardownLog[j]) - 1) :
              \E i \in 1..(j - 1) : teardownLog[i] = TeardownOrder[r]
        /\ cleanupPc = Len(CleanupOrder) =>
              \A r \in DOMAIN TeardownOrder :
                  \E i \in DOMAIN teardownLog : teardownLog[i] = TeardownOrder[r]

C10_Witness ==
    /\ cleanupFrom = "streaming"
    /\ cleanupPc = Len(CleanupOrder)
    /\ session = "closed" /\ audioCtx = "closed" /\ stream = "stopped"
    /\ frameInterval = "cleared"

\* C11: best-effort teardown.  When the cleanup of an established session has
\* ended, each of the four teardown steps was attempted, also when one of them
\* threw.
C11_BestEffort ==
    (cleanupFrom = "streaming" /\ cleanupPc = Len(CleanupOrder)) =>
        \A r \in DOMAIN TeardownOrder : Count(teardownLog, TeardownOrder[r]) = 1

\* Source i is the first one created on the context of a re-run of the effect.
FirstOfRerun(i) ==
    /\ sources[i].ctx > 0
    /\ \A k \in 1..(i - 1) : sources[k].ctx # sources[i].ctx

\* C12: fresh cursor per session.  A re-run of the effect starts with no
\* registered source and nextStartTime 0, and the first chunk of its session is
\* started at the new clock's value at its delivery.
C12_FreshCursor ==
    /\ (generation > 0 /\ session = None) =>
          (sourcesRef = {} /\ nextStartTime = 0)
    /\ \A i \in DOMAIN sources :
          (FirstOfRerun(i) /\ ~sources[i].cut) => sources[i].when = sources[i].arrived

\* The transcript events the component holds, oldest first.
TranscriptLog == IF transcription.tag = "" THEN <<>> ELSE <<transcription>>

\* C13: the transcript log is append-only.  The task of a message that carries
\* a transcript fragment leaves the log as it was, with the new event appended.
C13_AppendOnly ==
    [][(pending = <<>> /\ TranscriptCalls(lastDispatch'.msg) # <<>>)
         => TranscriptLog' = Append(TranscriptLog, transcription')]_vars

\* The sample lies in [-1, 1).
InRange(n) == 0 - SubSteps * Scale <= n /\ n < SubSteps * Scale

Abs(x) == IF x >= 0 THEN x ELSE 0 - x

\* C14: PCM round trip.  A sample in [-1, 1) that went through encodePCM,
\* decodeBase64 and decodeAudioData comes back within 1/32768 of its value.
C14_PCMRoundTrip ==
    codec.stage = "decoded" =>
        /\ Len(codec.out) = Len(codec.data)
        /\ \A i \in DOMAIN codec.data :
              InRange(codec.data[i])
                  => Abs(codec.out[i] * SubSteps - codec.data[i]) <= SubSteps

C14_Witness ==
    /\ codec.stage = "decoded"
    /\ codec.data = <<1 - SubSteps * Scale>>
    /\ codec.out = <<1 - Scale>>

\* C15: transport-text round trip.  decodeBase64 applied to the text encodePCM
\* made of its bytes returns exactly those bytes.
C15_TextRoundTrip == codec.stage = "decoded" => codec.bytes = codec.sent

C15_Witness ==
    /\ codec.stage = "decoded"
    /\ Len(codec.sent) = 4
    /\ codec.sent[2] = 128
    /\ codec.sent[3] = 255
    /\ codec.bytes = codec.sent

\* C16: a malformed chunk is dropped.  The task of a message with malformed
\* audio schedules nothing, and leaves the sources, the registered set and the
\* start any chunk delivered from now on is given as the same message without
\* audio would.
C16_MalformedDropped ==
    [][(pending = <<>> /\ lastDispatch'.msg.audio = Malformed)
         => LET c == IF lastDispatch'.msg.interrupted THEN onInterrupted(Cursor)
                     ELSE Cursor
            IN /\ pending' = <<>>
               /\ sources' = c.srcs
               /\ sourcesRef' = c.refs
               /\ Max(nextStartTime', now) = Max(c.nst, now)]_vars

C16_Witness ==
    /\ lastDispatch.msg.audio = Malformed
    /\ ~lastDispatch.msg.interrupted
    /\ sourcesRef # {}
    /\ now > 0
    /\ nextStartTime = now

C18_ErrorChangesNothing ==
    /\ [][(pending = <<>> /\ lastDispatch'.calls = <<"error">>)
            => UNCHANGED <<now, playbackVars, transcription, setupVars, inflight,
                           cleanupVars, restVars>>]_vars
    /\ []((lastDispatch.calls = <<"error">> /\ session = "open" /\ cleanupPc = 0)
            => (ENABLED AudioProcess /\ ENABLED OnMessage(NoMessage)))

C18_Witness ==
    /\ lastDispatch.calls = <<"error">>
    /\ session = "open"
    /\ sourcesRef # {}
    /\ nextStartTime > 0
    /\ inflight > 0

\* C19: no backlog.  At most one frame encode is in flight.
C19_NoBacklog == inflight <= 1

\* C20: never schedule in the past.  The start given to a source is at least
\* the clock value its onAudioChunk call read.
C20_NeverInPast ==
    \A i \in DOMAIN sources : sources[i].when >= sources[i].arrived

Sign(x) == IF x > 0 THEN 1 ELSE IF x < 0 THEN 0 - 1 ELSE 0

\* Math.round of the sample times 32768: the nearest integer, halves upward.
Round(n) == (2 * n + SubSteps) \div (2 * SubSteps)

\* The 16-bit element encodePCM stored for sample i, read back from its bytes.
Stored(i) == Int16At(codec.sent, i)

\* C21: every sample is stored as round(s * 32768) reduced to a signed 16-bit
\* integer.
C21_EncodeRounds ==
    codec.stage = "encoded" =>
        \A i \in DOMAIN codec.data :
            \E w \in {0 - 1, 0, 1} :
                Stored(i) = Round(codec.data[i]) + w * 2 * Scale

\* C21 as amended: every sample is stored as s * 32768 with its fraction
\* dropped (toward zero), reduced to a signed 16-bit integer: the stored value
\* differs by a multiple of 2^16 from an integer q of the sample's sign with
\* |q| <= |s * 32768| < |q| + 1.
C21_EncodeTruncates ==
    codec.stage = "encoded" =>
        /\ Len(codec.sent) = 2 * Len(codec.data)
        /\ \A i \in DOMAIN codec.data :
              /\ 0 - Scale <= Stored(i) /\ Stored(i) < Scale
              /\ \E w \in {0 - 1, 0, 1} :
                    LET q == Stored(i) + w * 2 * Scale
                        n == codec.data[i]
                    IN /\ q = 0 \/ Sign(q) = Sign(n)
                       /\ Abs(q) * SubSteps <= Abs(n)
                       /\ Abs(n) < (Abs(q) + 1) * SubSteps

C21_Witness ==
    /\ codec.stage = "encoded"
    /\ codec.data = <<SubSteps * Scale + 1>>
    /\ Stored(1) = 0 - Scale

\* C29: the sample 1.0 is stored as -32768 and decodes to -1.0, while every
\* sample in [-1, 1) is stored as a value of its own sign or as 0.
C29_WrapAtFullScale ==
    codec.stage = "decoded" =>
        \A i \in DOMAIN codec.data :
            /\ codec.data[i] = SubSteps * Scale
                  => (Stored(i) = 0 - Scale /\ codec.out[i] = 0 - Scale)
            /\ InRange(codec.data[i])
                  => (Stored(i) = 0 \/ Sign(Stored(i)) = Sign(codec.data[i]))

C29_Witness ==
    /\ codec.stage = "decoded"
    /\ codec.data = <<SubSteps * Scale>>
    /\ codec.out = <<0 - Scale>>

\* A step of the playback specification that is the ended event of a source
\* (or the task of a message that carries nothing): it neither handles a
\* payload nor advances the clock.
EndedStep == pending = <<>> /\ lastDispatch' = NoDispatch /\ now' = now

\* C22: natural completion.  The ended event of a source removes that source
\* from the registered set and changes nothing else; for a source that is not
\* registered any more it changes nothing.
C22_CompletionRemovesOne ==
    [][EndedStep =>
          /\ UNCHANGED <<nextStartTime, sources, pending, intSince>>
          /\ \/ sourcesRef' = sourcesRef
             \/ \E i \in sourcesRef :
                   /\ now >= End(sources[i])
                   /\ sourcesRef' = sourcesRef \ {i}]_vars

C22_Witness ==
    /\ lastDispatch = NoDispatch
    /\ nextStartTime > 0
    /\ \E i \in DOMAIN sources : \E j \in DOMAIN sources :
          /\ i \notin sourcesRef
          /\ ~sources[i].stopped
          /\ now >= End(sources[i])
          /\ j \in sourcesRef

\* IDLE: no registered source and nextStartTime at its origin.
SchedIdle == sourcesRef = {} /\ nextStartTime = 0

\* The last registered source completes naturally.
LastCompletes ==
    /\ EndedStep
    /\ sourcesRef # {}
    /\ sourcesRef' = {}
    /\ \A i \in sourcesRef : ~sources[i].stopped

NoInterruptBetween(i, j) ==
    \A k \in (i + 1)..j : ~sources[k].afterInt /\ ~sources[k].cut

\* C27: arrival order.  Of two chunks with no interruption between them, the
\* one delivered first is scheduled first and ends no later than the other starts.
C27_ArrivalOrder ==
    \A i \in DOMAIN sources : \A j \in DOMAIN sources :
        (i < j /\ NoInterruptBetween(i, j)) =>
            /\ sources[i].arrived <= sources[j].arrived
            /\ sources[i].when + sources[i].dur <= sources[j].when

C27_Witness ==
    /\ Len(sources) = 3
    /\ NoInterruptBetween(1, 3)
    /\ sources[2].when > sources[1].when + sources[1].dur
    /\ sources[3].when = sources[2].when + sources[2].dur

\* C24: teardown is complete.  Once the cleanup has run, the stream is not
\* live, the frame timer is not armed, the session is not open and the
\* processor does not fire, whatever initLive does afterwards.
C24_TeardownComplete ==
    cleanupPc = Len(CleanupOrder) =>
        /\ stream # "live"
        /\ frameInterval # "armed"
        /\ session # "open"
        /\ processor # "on"

\* C26: nothing is sent before the connection is established.  While connect
\* has not resolved there is no processor and no frame timer, no frame is being
\* encoded and sendRealtimeInput has not been called.
C26_NoSendBeforeConnect ==
    /\ session = None =>
          /\ processor = "off"
          /\ frameInterval = None
          /\ inflight = 0
          /\ lastSend = NoSend
    /\ lastSend.kind # None => lastSend.state # None

C26_Witness ==
    /\ initPc = "connect"
    /\ session = None
    /\ stream = "live"
    /\ now > 0

\* C25: every message that carries inline audio in its model turn has that
\* audio handed to onAudioChunk, whichever part holds it.
C25_AudioForwarded ==
    lastDispatch.msg.audio # 0 => Count(lastDispatch.calls, "audio") = 1

\* C28: most recent transcript event.  The task of a message that dispatches a
\* transcript event leaves the transcription at that event's text, tagged
\* 'Guide: ' for an output fragment and 'You: ' for an input fragment; every
\* other step leaves the transcription as it was.
C28_MostRecent ==
    [][LET m == lastDispatch'.msg
           t == IF pending = <<>> THEN lastDispatch'.calls ELSE <<>>
       IN IF Count(t, "assistant") = 1
          THEN transcription' = [tag |-> "Guide: ", text |-> m.out]
          ELSE IF Count(t, "user") = 1
          THEN transcription' = [tag |-> "You: ", text |-> m.inp]
          ELSE transcription' = transcription]_vars

C28_Witness ==
    /\ transcription = [tag |-> "You: ", text |-> "ok"]
    /\ lastDispatch.msg.inp = "ok"
    /\ lastDispatch.msg.out = None
    /\ lastDispatch.msg.audio # 0
    /\ pending = <<>>

\* C30: whenever the result is shown, the transformed image held in App state
\* was generated from the capture held in App state: a scenario
\* re-transformation started for an earlier capture never replaces it.
C30_ImageOfCurrentCapture ==
    ResultShown => app.transformedImage.of = app.originalImage

=========================================================================
